---- MODULE Spec2Model ----
(***************************************************************************)
(* Egress activation in src/agent.py: the entrypoint coroutine, the        *)
(* track_published listener, the scan check_and_start_egress, the task     *)
(* periodic_check and the submission start_track_egress, all running on    *)
(* one asyncio event loop.  One action is one run of a coroutine or a      *)
(* callback from the point where the loop resumes it to its next           *)
(* suspension.  The room (publications, participants) is changed by the    *)
(* transport layer between those runs.                                     *)
(***************************************************************************)
EXTENDS Integers, Sequences, FiniteSets, TLC

\* ---------------------------------------------------------------- bounds
\* Number of track_published deliveries explored (duplicates included).
MaxEvents == 2

\* ------------------------------------------------------------- constants
NumScans == 20
SleepSeconds == 6
RoomName == "local-room"
KIND_AUDIO == "audio"
KIND_VIDEO == "video"

\* Identity of ctx.room.local_participant and of the remote participants.
Local == "agent"
Remotes == {"human-user"}
Participants == {Local} \cup Remotes

\* Track sids; a sid is unique in the room, its kind and publisher are fixed.
Tracks == {"L1", "R1", "V1"}
Kind == [t \in Tracks |-> IF t = "V1" THEN KIND_VIDEO ELSE KIND_AUDIO]
Owner == [t \in Tracks |-> IF t = "L1" THEN Local ELSE "human-user"]

AudioTracks == {t \in Tracks : Kind[t] = KIND_AUDIO}

NoSid == "-"
NoPart == "-"
NoReq == [room_name |-> "-", track_id |-> "-", filepath |-> "-"]

VARIABLES
    ep_pc,               \* position of entrypoint / periodic_check
    listener,            \* on_track_published is registered on the room
    shutdown,            \* the process has shut down
    pubs,                \* participant -> its track_publications dict
    remote_participants, \* ctx.room.remote_participants dict
    egress_started_for,  \* the set of line 99
    calls,               \* the calls of start_track_egress, in call order
    scan,                \* iterators of the running check_and_start_egress
    scan_wait,           \* index in calls of the call the scan awaits, or 0
    scans,               \* iterations of periodic_check begun
    slept,               \* seconds periodic_check has slept
    events,              \* track_published events delivered
    room_changed         \* the publications changed since the initial scan
                         \* began (kept until periodic_check starts)

vars == <<ep_pc, listener, shutdown, pubs, remote_participants,
          egress_started_for, calls, scan, scan_wait, scans, slept,
          events, room_changed>>

\* ------------------------------------------------------------ dictionaries
\* A CPython dict: entries in insertion order, deleted entries stay as
\* holes (gone).  No key is inserted twice here, so no resize compacts it.
EmptyDict == [entries |-> <<>>, gone |-> {}]

Keys(d) == {d.entries[i] : i \in 1..Len(d.entries)}

Live(d) == Keys(d) \ d.gone

Used(d) == Cardinality(Live(d))

DictAdd(d, k) == [d EXCEPT !.entries = Append(@, k)]

DictPop(d, k) == [d EXCEPT !.gone = @ \cup {k}]

\* iter(d.items()) / iter(d.values()): position, size snapshot, items left.
NoIter == [pos |-> 0, used |-> 0, len |-> 0]

NewIter(d) == [pos |-> 0, used |-> Used(d), len |-> Used(d)]

NextLive(d, p) ==
    LET later == {i \in (p + 1)..Len(d.entries) : d.entries[i] \notin d.gone}
    IN IF later = {} THEN 0 ELSE CHOOSE i \in later : \A j \in later : i <= j

\* next(it): RuntimeError when the dict changed size, or when an entry turns
\* up after all items of the snapshot were produced.
DictNext(it, d) ==
    IF it.used # Used(d)
    THEN [kind |-> "raise", it |-> it, key |-> NoSid]
    ELSE LET i == NextLive(d, it.pos) IN
         IF i = 0 THEN [kind |-> "stop", it |-> it, key |-> NoSid]
         ELSE IF it.len = 0 THEN [kind |-> "raise", it |-> it, key |-> NoSid]
         ELSE [kind |-> "item",
               it |-> [it EXCEPT !.pos = i, !.len = @ - 1],
               key |-> d.entries[i]]

\* ------------------------------------------------------ start_track_egress
FilePath_Swapped(room, identity, sid) ==
    "livekit/" \o room \o "/" \o sid \o "-" \o identity \o ".ogg"

FilePath(room, identity, sid) ==
    "livekit/" \o room \o "/" \o identity \o "-" \o sid \o ".ogg"

TrackEgressRequest(room, identity, sid) ==
    [room_name |-> room, track_id |-> sid,
     filepath |-> FilePath(room, identity, sid)]

Propagates_OnFailure(outcome) == outcome = "failed"

\* Whether start_track_egress raises to its awaiter when the RPC ends with
\* the given outcome: "except Exception" catches and logs.
Propagates(outcome) == FALSE

StartedAfter_DiscardOnFailure(started, sid, outcome) ==
    IF outcome = "failed" THEN started \ {sid} ELSE started

StartedAfter_ClearOnFailure(started, sid, outcome) ==
    IF outcome = "failed" THEN {} ELSE started

\* egress_started_for after the call for sid returned with outcome: neither
\* branch of the try touches the set.
StartedAfter(started, sid, outcome) == started

Outcomes == {"ok", "failed"}

\* ------------------------------------------------------------ eligibility
EventEligible_NoMembership(sid, started) == Kind[sid] = KIND_AUDIO

EventEligible_NoKind(sid, started) == sid \notin started

EventEligible(sid, started) == Kind[sid] = KIND_AUDIO /\ sid \notin started

ScanEligible_NoMembership(sid, started) == Kind[sid] = KIND_AUDIO

ScanEligible(sid, started) == Kind[sid] = KIND_AUDIO /\ sid \notin started

\* ---------------------------------------------------- check_and_start_egress
NoScan == [phase |-> "idle", li |-> NoIter, oi |-> NoIter, ii |-> NoIter,
           part |-> NoPart]

FreshScan == [NoScan EXCEPT !.phase = "local", !.li = NewIter(pubs[Local])]

ScanRaise == [outcome |-> "raise", scan |-> NoScan, sid |-> NoSid,
              identity |-> NoPart]

ScanDone == [outcome |-> "done", scan |-> NoScan, sid |-> NoSid,
             identity |-> NoPart]

\* One round of the loops of check_and_start_egress from the iterators in s:
\* the next item of the loop the scan is in, and what the code does with it.
\* "go" means the loops run on from .scan without suspending.
ScanStep(s, started) ==
    CASE s.phase = "local" ->
           LET r == DictNext(s.li, pubs[Local]) IN
           IF r.kind = "raise" THEN ScanRaise
           ELSE IF r.kind = "stop"
           THEN [outcome |-> "go",
                 scan |-> [s EXCEPT !.phase = "outer", !.li = NoIter,
                                    !.oi = NewIter(remote_participants)],
                 sid |-> NoSid, identity |-> NoPart]
           ELSE [outcome |-> IF ScanEligible(r.key, started)
                             THEN "await" ELSE "go",
                 scan |-> [s EXCEPT !.li = r.it],
                 sid |-> r.key, identity |-> Local]
      [] s.phase = "outer" ->
           LET r == DictNext(s.oi, remote_participants) IN
           IF r.kind = "raise" THEN ScanRaise
           ELSE IF r.kind = "stop" THEN ScanDone
           ELSE [outcome |-> "go",
                 scan |-> [s EXCEPT !.phase = "inner", !.oi = r.it,
                                    !.part = r.key,
                                    !.ii = NewIter(pubs[r.key])],
                 sid |-> NoSid, identity |-> NoPart]
      [] s.phase = "inner" ->
           LET r == DictNext(s.ii, pubs[s.part]) IN
           IF r.kind = "raise" THEN ScanRaise
           ELSE IF r.kind = "stop"
           THEN [outcome |-> "go",
                 scan |-> [s EXCEPT !.phase = "outer", !.ii = NoIter,
                                    !.part = NoPart],
                 sid |-> NoSid, identity |-> NoPart]
           ELSE [outcome |-> IF ScanEligible(r.key, started)
                             THEN "await" ELSE "go",
                 scan |-> [s EXCEPT !.ii = r.it],
                 sid |-> r.key, identity |-> s.part]
      [] OTHER -> ScanDone

\* Runs the two loops from the iterators in s until the scan awaits a
\* submission ("await"), ends ("done"), or raises ("raise").  (The step is
\* bound to a value before the recursion so that it is computed once.)
RECURSIVE RunScan(_, _)
RunScan(s, started) ==
    CHOOSE res \in {IF r.outcome = "go" THEN RunScan(r.scan, started) ELSE r :
                      r \in {ScanStep(s, started)}} : TRUE

\* Position after a scan ended: the initial one is followed by
\* create_task(periodic_check), a periodic one by the next iteration.
AfterScan(which, n) ==
    IF which = "initial" THEN "periodic_created"
    ELSE IF n < NumScans THEN "sleep" ELSE "done"

ScanPc(which) == IF which = "initial" THEN "initial_scan" ELSE "periodic_scan"

RaisedPc(which) ==
    IF which = "initial" THEN "raised_initial" ELSE "raised_periodic"

\* The scan as it would run if the sid were inserted only after the awaited
\* submission returned: the test and the insertion are separated by the await.
Continue_InsertAfterAwait(which, n, s, calls0, started0) ==
    LET returned == IF scan_wait = 0 THEN {} ELSE {calls[scan_wait].sid}
        st == started0 \cup returned
    IN
    \E r \in {RunScan(s, st)} :
    CASE r.outcome = "await" ->
           /\ egress_started_for' = st
           /\ calls' = Append(calls0,
                  [sid |-> r.sid, identity |-> r.identity, via |-> "scan",
                   state |-> "inflight",
                   req |-> TrackEgressRequest(RoomName, r.identity, r.sid)])
           /\ scan' = r.scan
           /\ scan_wait' = Len(calls0) + 1
           /\ ep_pc' = ScanPc(which)
           /\ room_changed' = room_changed
      [] r.outcome = "done" ->
           /\ egress_started_for' = st
           /\ calls' = calls0
           /\ scan' = NoScan
           /\ scan_wait' = 0
           /\ ep_pc' = AfterScan(which, n)
           /\ room_changed' = room_changed
      [] r.outcome = "raise" ->
           /\ egress_started_for' = st
           /\ calls' = calls0
           /\ scan' = NoScan
           /\ scan_wait' = 0
           /\ ep_pc' = RaisedPc(which)
           /\ room_changed' = FALSE

\* The scan runs on from s: calls0 and started0 are the calls and the set as
\* the code before the resumption point left them.
Continue(which, n, s, calls0, started0) ==
    \E r \in {RunScan(s, started0)} :
    CASE r.outcome = "await" ->
           /\ egress_started_for' = started0 \cup {r.sid}
           /\ calls' = Append(calls0,
                  [sid |-> r.sid, identity |-> r.identity, via |-> "scan",
                   state |-> "inflight",
                   req |-> TrackEgressRequest(RoomName, r.identity, r.sid)])
           /\ scan' = r.scan
           /\ scan_wait' = Len(calls0) + 1
           /\ ep_pc' = ScanPc(which)
           /\ room_changed' = room_changed
      [] r.outcome = "done" ->
           /\ egress_started_for' = started0
           /\ calls' = calls0
           /\ scan' = NoScan
           /\ scan_wait' = 0
           /\ ep_pc' = AfterScan(which, n)
           /\ room_changed' = room_changed
      [] r.outcome = "raise" ->
           /\ egress_started_for' = started0
           /\ calls' = calls0
           /\ scan' = NoScan
           /\ scan_wait' = 0
           /\ ep_pc' = RaisedPc(which)
           /\ room_changed' = FALSE

Which == IF ep_pc = "initial_scan" THEN "initial" ELSE "periodic"

\* ------------------------------------------------------------------- Init
Init ==
    /\ ep_pc = "entry"
    /\ listener = FALSE
    /\ shutdown = FALSE
    /\ pubs = [p \in Participants |-> EmptyDict]
    /\ remote_participants = EmptyDict
    /\ egress_started_for = {}
    /\ calls = <<>>
    /\ scan = NoScan
    /\ scan_wait = 0
    /\ scans = 0
    /\ slept = 0
    /\ events = 0
    /\ room_changed = FALSE

\* ------------------------------------------------------------- entrypoint
\* Lines 58-141: the set is created and the listener registered, then the
\* coroutine suspends in session.start.
RegisterListener ==
    /\ ep_pc = "entry"
    /\ ~shutdown
    /\ ep_pc' = "session_start"
    /\ listener' = TRUE
    /\ egress_started_for' = {}
    /\ UNCHANGED <<shutdown, pubs, remote_participants, calls, scan,
                   scan_wait, scans, slept, events, room_changed>>

\* session.start returns and entrypoint goes straight to line 184, as it
\* would without the initial scan of line 176.
SessionStarted_NoScan ==
    /\ ep_pc = "session_start"
    /\ ~shutdown
    /\ ep_pc' = "periodic_created"
    /\ UNCHANGED <<listener, shutdown, pubs, remote_participants,
                   egress_started_for, calls, scan, scan_wait, scans, slept,
                   events, room_changed>>

\* session.start returns; the initial scan runs to its first suspension.
SessionStarted ==
    /\ ep_pc = "session_start"
    /\ ~shutdown
    /\ Continue("initial", scans, FreshScan, calls, egress_started_for)
    /\ UNCHANGED <<listener, shutdown, pubs, remote_participants, scans,
                   slept, events>>

\* The scan as it would go on if line 162/174 started the submission without
\* awaiting it: the scan examines the next track while the call is in flight.
ScanResume_NoWait(outcome) ==
    /\ ep_pc \in {"initial_scan", "periodic_scan"}
    /\ scan_wait # 0
    /\ ~shutdown
    /\ Continue(Which, scans, scan, calls, egress_started_for)
    /\ UNCHANGED <<listener, shutdown, pubs, remote_participants, scans,
                   slept, events>>

\* The awaited submission returns and the scan goes on.
ScanResume(outcome) ==
    /\ ep_pc \in {"initial_scan", "periodic_scan"}
    /\ scan_wait # 0
    /\ ~shutdown
    /\ LET sid == calls[scan_wait].sid
           calls0 == [calls EXCEPT ![scan_wait].state = outcome]
           started0 == StartedAfter(egress_started_for, sid, outcome)
       IN IF Propagates(outcome)
          THEN /\ ep_pc' = RaisedPc(Which)
               /\ calls' = calls0
               /\ egress_started_for' = started0
               /\ scan' = NoScan
               /\ scan_wait' = 0
               /\ room_changed' = FALSE
          ELSE Continue(Which, scans, scan, calls0, started0)
    /\ UNCHANGED <<listener, shutdown, pubs, remote_participants, scans,
                   slept, events>>

\* ---------------------------------------------------------- periodic_check
\* The task created at line 184 starts and suspends in its first sleep.
PeriodicStart ==
    /\ ep_pc = "periodic_created"
    /\ ~shutdown
    /\ ep_pc' = IF NumScans > 0 THEN "sleep" ELSE "done"
    /\ room_changed' = FALSE
    /\ UNCHANGED <<listener, shutdown, pubs, remote_participants,
                   egress_started_for, calls, scan, scan_wait, scans, slept,
                   events>>

\* The sleep ends and the scan of this iteration runs to its first
\* suspension.
Wake ==
    /\ ep_pc = "sleep"
    /\ ~shutdown
    /\ scans' = scans + 1
    /\ slept' = slept + SleepSeconds
    /\ Continue("periodic", scans + 1, FreshScan, calls, egress_started_for)
    /\ UNCHANGED <<listener, shutdown, pubs, remote_participants, events>>

\* ------------------------------------------------------- on_track_published
on_track_published_NoTask(t) ==
    /\ listener
    /\ ~shutdown
    /\ events < MaxEvents
    /\ t \in Keys(pubs[Owner[t]])
    /\ events' = events + 1
    /\ IF EventEligible(t, egress_started_for)
       THEN /\ egress_started_for' = egress_started_for \cup {t}
            /\ UNCHANGED calls
       ELSE UNCHANGED <<egress_started_for, calls>>
    /\ UNCHANGED <<ep_pc, listener, shutdown, pubs, remote_participants,
                   scan, scan_wait, scans, slept, room_changed>>

\* The handler as it would be if it added the sid before testing the kind.
on_track_published_AddAlways(t) ==
    /\ listener
    /\ ~shutdown
    /\ events < MaxEvents
    /\ t \in Keys(pubs[Owner[t]])
    /\ events' = events + 1
    /\ egress_started_for' = egress_started_for \cup {t}
    /\ IF EventEligible(t, egress_started_for)
       THEN calls' = Append(calls,
                   [sid |-> t, identity |-> Owner[t], via |-> "event",
                    state |-> "scheduled", req |-> NoReq])
       ELSE UNCHANGED calls
    /\ UNCHANGED <<ep_pc, listener, shutdown, pubs, remote_participants,
                   scan, scan_wait, scans, slept, room_changed>>

\* The handler as it would be if it sent the request itself instead of
\* creating a task for start_track_egress.
on_track_published_Inline(t) ==
    /\ listener
    /\ ~shutdown
    /\ events < MaxEvents
    /\ t \in Keys(pubs[Owner[t]])
    /\ events' = events + 1
    /\ IF EventEligible(t, egress_started_for)
       THEN /\ egress_started_for' = egress_started_for \cup {t}
            /\ calls' = Append(calls,
                   [sid |-> t, identity |-> Owner[t], via |-> "event",
                    state |-> "inflight",
                    req |-> TrackEgressRequest(RoomName, Owner[t], t)])
       ELSE UNCHANGED <<egress_started_for, calls>>
    /\ UNCHANGED <<ep_pc, listener, shutdown, pubs, remote_participants,
                   scan, scan_wait, scans, slept, room_changed>>

on_track_published(t) ==
    /\ listener
    /\ ~shutdown
    /\ events < MaxEvents
    /\ t \in Keys(pubs[Owner[t]])
    /\ events' = events + 1
    /\ IF EventEligible(t, egress_started_for)
       THEN /\ egress_started_for' = egress_started_for \cup {t}
            /\ calls' = Append(calls,
                   [sid |-> t, identity |-> Owner[t], via |-> "event",
                    state |-> "scheduled", req |-> NoReq])
       ELSE UNCHANGED <<egress_started_for, calls>>
    /\ UNCHANGED <<ep_pc, listener, shutdown, pubs, remote_participants,
                   scan, scan_wait, scans, slept, room_changed>>

\* The task of line 114 as it would end if the loop dropped it before its
\* first step: no request is ever sent for it.
TaskStart_Dropped(i) ==
    /\ ~shutdown
    /\ i \in 1..Len(calls)
    /\ calls[i].state = "scheduled"
    /\ calls' = [calls EXCEPT ![i].state = "failed"]
    /\ UNCHANGED <<ep_pc, listener, shutdown, pubs, remote_participants,
                   egress_started_for, scan, scan_wait, scans, slept,
                   events, room_changed>>

\* The task of line 114 starts: the request is built and sent.
TaskStart(i) ==
    /\ ~shutdown
    /\ i \in 1..Len(calls)
    /\ calls[i].state = "scheduled"
    /\ calls' = [calls EXCEPT
                   ![i].state = "inflight",
                   ![i].req = TrackEgressRequest(RoomName, calls[i].identity,
                                                 calls[i].sid)]
    /\ UNCHANGED <<ep_pc, listener, shutdown, pubs, remote_participants,
                   egress_started_for, scan, scan_wait, scans, slept,
                   events, room_changed>>

\* The RPC of a task returns.
TaskFinish(i, outcome) ==
    /\ ~shutdown
    /\ i \in 1..Len(calls)
    /\ calls[i].via = "event"
    /\ calls[i].state = "inflight"
    /\ calls' = [calls EXCEPT ![i].state = outcome]
    /\ egress_started_for' =
           StartedAfter(egress_started_for, calls[i].sid, outcome)
    /\ UNCHANGED <<ep_pc, listener, shutdown, pubs, remote_participants,
                   scan, scan_wait, scans, slept, events, room_changed>>

\* --------------------------------------------------------- transport layer
Connected(p) == p = Local \/ p \in Live(remote_participants)

\* The initial scan has begun and periodic_check has not started yet.
DuringInitialScan ==
    room_changed \/ ep_pc \in {"initial_scan", "periodic_created"}

Publish(t) ==
    /\ ep_pc # "entry"
    /\ ~shutdown
    /\ Connected(Owner[t])
    /\ t \notin Keys(pubs[Owner[t]])
    /\ pubs' = [pubs EXCEPT ![Owner[t]] = DictAdd(@, t)]
    /\ room_changed' = DuringInitialScan
    /\ UNCHANGED <<ep_pc, listener, shutdown, remote_participants,
                   egress_started_for, calls, scan, scan_wait, scans, slept,
                   events>>

Unpublish(t) ==
    /\ ep_pc # "entry"
    /\ ~shutdown
    /\ Connected(Owner[t])
    /\ t \in Live(pubs[Owner[t]])
    /\ pubs' = [pubs EXCEPT ![Owner[t]] = DictPop(@, t)]
    /\ room_changed' = DuringInitialScan
    /\ UNCHANGED <<ep_pc, listener, shutdown, remote_participants,
                   egress_started_for, calls, scan, scan_wait, scans, slept,
                   events>>

Connect(p) ==
    /\ ep_pc # "entry"
    /\ ~shutdown
    /\ p \notin Keys(remote_participants)
    /\ remote_participants' = DictAdd(remote_participants, p)
    /\ UNCHANGED <<ep_pc, listener, shutdown, pubs, egress_started_for,
                   calls, scan, scan_wait, scans, slept, events,
                   room_changed>>

Disconnect(p) ==
    /\ ep_pc # "entry"
    /\ ~shutdown
    /\ p \in Live(remote_participants)
    /\ remote_participants' = DictPop(remote_participants, p)
    /\ room_changed' = DuringInitialScan
    /\ UNCHANGED <<ep_pc, listener, shutdown, pubs, egress_started_for,
                   calls, scan, scan_wait, scans, slept, events>>

Shutdown ==
    /\ ep_pc # "entry"
    /\ ~shutdown
    /\ shutdown' = TRUE
    /\ UNCHANGED <<ep_pc, listener, pubs, remote_participants,
                   egress_started_for, calls, scan, scan_wait, scans, slept,
                   events, room_changed>>

\* ------------------------------------------------------------------- Next
Next ==
    \/ RegisterListener
    \/ SessionStarted
    \/ \E o \in Outcomes : ScanResume(o)
    \/ PeriodicStart
    \/ Wake
    \/ \E t \in Tracks : on_track_published(t)
    \/ \E i \in 1..Len(calls) : TaskStart(i)
    \/ \E i \in 1..Len(calls) : \E o \in Outcomes : TaskFinish(i, o)
    \/ \E t \in Tracks : Publish(t)
    \/ \E t \in Tracks : Unpublish(t)
    \/ \E p \in Remotes : Connect(p)
    \/ \E p \in Remotes : Disconnect(p)
    \/ Shutdown

Spec == Init /\ [][Next]_vars

\* asyncio runs every task handed to create_task: a task that is scheduled
\* is started.  Nothing is assumed of the transport layer, of the RPCs, of
\* the sleeps or of the shutdown.
MaxCalls == Cardinality(AudioTracks)

Fairness == \A i \in 1..MaxCalls : WF_vars(TaskStart(i))

FairSpec == Spec /\ Fairness

\* ---------------------------------------------------------------- helpers
CallsFor(cs, t) == {i \in 1..Len(cs) : cs[i].sid = t}

CallCount(cs, t) == Cardinality(CallsFor(cs, t))

\* The request for t has been sent to the recording service.
Submitted(t) == \E i \in CallsFor(calls, t) : calls[i].state # "scheduled"

TypeOK ==
    /\ ep_pc \in {"entry", "session_start", "initial_scan",
                  "periodic_created", "sleep", "periodic_scan", "done",
                  "raised_initial", "raised_periodic"}
    /\ egress_started_for \subseteq Tracks
    /\ scan_wait \in 0..Len(calls)
    /\ scans \in 0..NumScans
    /\ room_changed \in BOOLEAN

\* The request of line 90 has been sent for track t.
Sent(t) == \E i \in 1..Len(calls) : calls[i].sid = t /\ calls[i].req # NoReq

\* The audio tracks check_and_start_egress can see: published and not
\* unpublished, of the local participant or a connected remote one.
PublishedAudio ==
    {t \in AudioTracks : Connected(Owner[t]) /\ t \in Live(pubs[Owner[t]])}

\* The order of lines 101-184: the listener is registered before
\* session.start is awaited, the initial scan follows session.start, and
\* periodic_check is created after the initial scan and never before it.
EntrypointOrder ==
    /\ ep_pc' # "entry" => listener'
    /\ ep_pc' = "initial_scan" => ep_pc \in {"session_start", "initial_scan"}
    /\ ep_pc' = "periodic_created"
          => ep_pc \in {"session_start", "initial_scan", "periodic_created"}
    /\ ep_pc' \in {"sleep", "periodic_scan", "done", "raised_periodic"}
          => ep_pc \notin {"entry", "session_start", "initial_scan",
                           "raised_initial"}
    /\ ep_pc' \in {"entry", "session_start", "initial_scan",
                    "periodic_created", "raised_initial"} => scans' = 0

\* The submissions made by check_and_start_egress that have not returned.
ScanInflight ==
    {i \in 1..Len(calls) : calls[i].via = "scan" /\ calls[i].state = "inflight"}

\* ================================================================= claims

\* C1: every discovery of a track, by a track_published event or by a scan,
\* leaves exactly one call of start_track_egress for it: no track ever has
\* two calls, an audio track has one call once on_track_published ran for
\* it, and a sid that enters egress_started_for had no call before the step
\* and has one after it.
C1_ExactlyOneCall ==
    [][ /\ \A t \in Tracks : CallCount(calls', t) <= 1
        /\ \A t \in AudioTracks :
               on_track_published(t) => CallCount(calls', t) = 1
        /\ \A t \in egress_started_for' \ egress_started_for :
               CallCount(calls, t) = 0 /\ CallCount(calls', t) = 1 ]_vars

\* R1 is the only track ever published; a scan found it first and two
\* track_published events for it followed: still one call.
C1_Witness ==
    /\ Keys(pubs[Local]) = {}
    /\ Keys(pubs["human-user"]) = {"R1"}
    /\ events = 2
    /\ Len(calls) = 1
    /\ calls[1].sid = "R1"
    /\ calls[1].via = "scan"
    /\ ep_pc = "done"

\* C2 (as stated): every published audio track is eventually submitted even
\* when its event is never delivered; as a final result: once periodic_check
\* has ended after its last scan and no task is waiting to start, every
\* audio track that is published has been submitted.
C2_Original ==
    (ep_pc = "done" /\ ~shutdown
       /\ \A i \in 1..Len(calls) : calls[i].state # "scheduled")
    => \A t \in AudioTracks : t \in Live(pubs[Owner[t]]) => Submitted(t)

\* C2 (amended): an audio track whose event was delivered to the listener,
\* or which a scan found, is eventually submitted unless the process shuts
\* down first: the handler leaves an audio track in egress_started_for, a
\* scan puts there what it finds, and what is there is submitted.
C2_DiscoveredSubmitted ==
    /\ [][\A t \in AudioTracks :
            on_track_published(t) => t \in egress_started_for']_vars
    /\ \A t \in AudioTracks :
          (t \in egress_started_for) ~> (Submitted(t) \/ shutdown)

\* A scan submitted one track, for which no event was delivered; the only
\* event delivered created the task that submitted the other track.
C2_Witness ==
    /\ Len(calls) = 2
    /\ calls[1].via = "scan"
    /\ calls[2].via = "event"
    /\ calls[2].state \in {"inflight", "ok", "failed"}
    /\ events = 1

\* C3: a track that is not audio is never in egress_started_for and never
\* has a call of start_track_egress; when the remote participant published
\* R1 and then V1 (and nothing else was published) the only call is one for
\* R1.
C3_NonAudioNeverSubmitted ==
    /\ \A t \in Tracks \ AudioTracks :
          t \notin egress_started_for /\ CallCount(calls, t) = 0
    /\ (pubs["human-user"].entries = <<"R1", "V1">> /\ Keys(pubs[Local]) = {})
          => Len(calls) <= 1 /\ \A i \in 1..Len(calls) : calls[i].sid = "R1"

\* R1 then V1 were published, events were delivered, all scans ran: one
\* successful submission, for R1.
C3_Witness ==
    /\ pubs["human-user"] = [entries |-> <<"R1", "V1">>, gone |-> {}]
    /\ Keys(pubs[Local]) = {}
    /\ events = 2
    /\ ep_pc = "done"
    /\ Len(calls) = 1
    /\ calls[1].sid = "R1"
    /\ calls[1].state = "ok"
    /\ egress_started_for = {"R1"}

\* C4 (as stated): periodic_check performs exactly NumScans scans, each
\* after one sleep of SleepSeconds: when the task has ended it has begun
\* NumScans scans and slept NumScans * SleepSeconds seconds.
C4_Original ==
    ep_pc \in {"done", "raised_periodic"}
    => scans = NumScans /\ slept = NumScans * SleepSeconds

\* C5 (as stated): no operation propagates an exception to its caller; a
\* scan resumed after the room changed runs to completion without raising.
C5_Original == ep_pc \notin {"raised_initial", "raised_periodic"}

\* The dict under a live iterator of the suspended scan is no longer what
\* the iterator expects.
AfterPos(it, d) ==
    {d.entries[i] : i \in (it.pos + 1)..Len(d.entries)} \ d.gone

IterChanged(it, d) ==
    it.used # Used(d) \/ Cardinality(AfterPos(it, d)) # it.len

RoomChangedUnderScan ==
    CASE scan.phase = "local" -> IterChanged(scan.li, pubs[Local])
      [] scan.phase = "inner" ->
           \/ IterChanged(scan.ii, pubs[scan.part])
           \/ IterChanged(scan.oi, remote_participants)
      [] scan.phase = "outer" -> IterChanged(scan.oi, remote_participants)
      [] OTHER -> FALSE

\* The tracks the suspended scan has still to enumerate.
Remaining ==
    CASE scan.phase = "local" ->
           AfterPos(scan.li, pubs[Local])
           \cup UNION {Live(pubs[p]) : p \in Live(remote_participants)}
      [] scan.phase = "inner" ->
           AfterPos(scan.ii, pubs[scan.part])
           \cup UNION {Live(pubs[p]) :
                          p \in AfterPos(scan.oi, remote_participants)}
      [] OTHER -> {}

\* C6: a step in which the submission for a track fails leaves the listener
\* attached, the process running, the set and every other call untouched;
\* the scan or periodic_check ends with an exception in such a step only if
\* the room changed under the scan's iterators; and when the failed call was
\* the one the scan awaited and the room did not change, the scan goes on:
\* the next unsubmitted audio track of the enumeration is submitted, or the
\* scan ends normally and the entrypoint / periodic_check goes on.
C6_FailureIsolated ==
    [][ \A i \in 1..Len(calls) :
          (calls[i].state = "inflight" /\ calls'[i].state = "failed") =>
            /\ listener' /\ ~shutdown'
            /\ egress_started_for \subseteq egress_started_for'
            /\ \A j \in 1..Len(calls) : j # i => calls'[j] = calls[j]
            /\ i # scan_wait => UNCHANGED <<ep_pc, scan, scan_wait>>
            /\ (ep_pc' # ep_pc
                  /\ ep_pc' \in {"raised_initial", "raised_periodic"})
                  => i = scan_wait /\ RoomChangedUnderScan
            /\ (i = scan_wait /\ ~RoomChangedUnderScan) =>
                 LET todo == {t \in Remaining \cap AudioTracks :
                                 t \notin egress_started_for}
                 IN IF todo = {}
                    THEN ep_pc' = AfterScan(Which, scans)
                    ELSE /\ ep_pc' = ep_pc
                         /\ scan_wait' = Len(calls) + 1
                         /\ calls'[scan_wait'].sid \in todo
                         /\ calls'[scan_wait'].state = "inflight" ]_vars

\* In the initial scan the submission for L1 failed and the scan went on to
\* submit R1.
C6_Witness ==
    /\ ep_pc = "initial_scan"
    /\ Len(calls) = 2
    /\ calls[1].sid = "L1" /\ calls[1].via = "scan"
    /\ calls[1].state = "failed"
    /\ calls[2].sid = "R1" /\ calls[2].via = "scan"
    /\ calls[2].state = "inflight"

\* C7: once the submission for a track has failed, the call stays failed,
\* the track stays in egress_started_for and it keeps exactly one call.
C7_NoRetry ==
    [][ \A i \in 1..Len(calls) :
          calls[i].state = "failed" =>
            /\ Len(calls') >= i
            /\ calls'[i] = calls[i]
            /\ calls[i].sid \in egress_started_for
            /\ calls[i].sid \in egress_started_for'
            /\ CallCount(calls', calls[i].sid) = 1 ]_vars

\* The scan's submission for R1 failed; a later scan (the one that found L1,
\* which is enumerated before R1) and all the scans after it passed R1
\* again: R1 has one call.
C7_Witness ==
    /\ ep_pc = "done"
    /\ Len(calls) = 2
    /\ calls[1].sid = "R1" /\ calls[1].via = "scan"
    /\ calls[1].state = "failed"
    /\ calls[2].sid = "L1" /\ calls[2].via = "scan"
    /\ "R1" \in Live(pubs["human-user"])
    /\ "human-user" \in Live(remote_participants)

\* C8: egress_started_for is empty at the start and no step removes an
\* element from it.
C8_OnlyGrows ==
    /\ egress_started_for = {}
    /\ [][egress_started_for \subseteq egress_started_for']_vars

\* After a failed submission, the unpublishing of the track and the
\* shutdown, the track is still in the set.
C8_Witness ==
    /\ shutdown
    /\ \E i \in 1..Len(calls) :
          /\ calls[i].state = "failed"
          /\ calls[i].sid \in pubs[Owner[calls[i].sid]].gone
          /\ calls[i].sid \in egress_started_for

\* C9 (as stated): every request carries the room name, the track id and
\* the file path <room>/<participant identity>-<track id>.ogg.
C9_Original ==
    \A i \in 1..Len(calls) :
        calls[i].state # "scheduled" =>
          /\ calls[i].req.room_name = RoomName
          /\ calls[i].req.track_id = calls[i].sid
          /\ calls[i].req.filepath =
                RoomName \o "/" \o Owner[calls[i].sid] \o "-"
                         \o calls[i].sid \o ".ogg"

\* C9 (amended): every request carries the room name, the track id and the
\* file path livekit/<room>/<participant identity>-<track id>.ogg.
C9_RequestFields ==
    \A i \in 1..Len(calls) :
        calls[i].state # "scheduled" =>
          /\ calls[i].req.room_name = RoomName
          /\ calls[i].req.track_id = calls[i].sid
          /\ calls[i].req.filepath =
                "livekit/" \o RoomName \o "/" \o Owner[calls[i].sid] \o "-"
                           \o calls[i].sid \o ".ogg"

\* A request was sent for the local track, by a scan, and one for the
\* remote track, by the task of an event.
C9_Witness ==
    \E i, j \in 1..Len(calls) :
        /\ calls[i].sid = "L1" /\ calls[i].req # NoReq
        /\ calls[j].sid = "R1" /\ calls[j].via = "event"
        /\ calls[j].req # NoReq

\* C10 (as stated): periodic_check reaches its end after its NumScans-th
\* scan: the task never ends in another way, and at its end all its scans
\* are over and none of its submissions is pending.
C10_Original ==
    /\ ep_pc # "raised_periodic"
    /\ ep_pc = "done" => scans = NumScans /\ scan_wait = 0 /\ scan = NoScan

\* C11: on both paths the membership test on egress_started_for and the
\* insertion of the sid happen in one step of the event loop: a call of
\* start_track_egress that a step creates (scheduled by the handler or begun
\* by a scan) is for a sid that was absent before the step and is in the set
\* after it, so no state has a track found absent and not yet inserted, and
\* the scan is suspended only on a sid that is already in the set.
C11_TestAndInsertAtomic ==
    [][ /\ \A i \in (Len(calls) + 1)..Len(calls') :
              /\ calls'[i].sid \notin egress_started_for
              /\ calls'[i].sid \in egress_started_for'
        /\ \A i \in 1..Len(calls') : calls'[i].sid \in egress_started_for'
        /\ scan_wait' # 0 => calls'[scan_wait'].sid \in egress_started_for'
      ]_vars

\* The initial scan is suspended on the submission for R1, the only track
\* ever published, and on_track_published(R1) ran during the suspension: it
\* found R1 in the set and made no second call.
C11_Witness ==
    /\ ep_pc = "initial_scan"
    /\ scan_wait = 1
    /\ Len(calls) = 1
    /\ calls[1].sid = "R1" /\ calls[1].via = "scan"
    /\ calls[1].state = "inflight"
    /\ events >= 1
    /\ Keys(pubs[Local]) = {}
    /\ Keys(pubs["human-user"]) = {"R1"}
    /\ egress_started_for = {"R1"}

\* C12: scans are sequential. The scan moves on from a suspension only when
\* the awaited submission has ended; at most one submission made by the scan
\* path is in flight and it is the one the scan is suspended on; no scan is
\* active and no scan submission is in flight when periodic_check is created,
\* sleeps or is done, nor before the initial scan.
C12_ScansSequential ==
    [][ /\ (scan_wait # 0 /\ (scan' # scan \/ scan_wait' # scan_wait))
              => calls'[scan_wait].state \in {"ok", "failed"}
        /\ ScanInflight' \subseteq {scan_wait'}
        /\ scan_wait' # 0 => /\ ScanInflight' = {scan_wait'}
                             /\ ep_pc' \in {"initial_scan", "periodic_scan"}
        /\ ep_pc' \in {"initial_scan", "periodic_scan"} => scan_wait' # 0
        /\ ep_pc' \notin {"initial_scan", "periodic_scan"}
              => scan' = NoScan /\ ScanInflight' = {}
      ]_vars

\* A submission of the scan path and one started by on_track_published are
\* in flight at the same time.
C12_Witness ==
    /\ scan_wait # 0
    /\ calls[scan_wait].state = "inflight"
    /\ \E i \in 1..Len(calls) :
          calls[i].via = "event" /\ calls[i].state = "inflight"

\* C13: a sid already in egress_started_for is left alone by both paths: no
\* step makes or schedules a call for it, and on_track_published for it
\* changes neither egress_started_for nor the calls. With L1 the only track
\* ever published there is never more than the one call for L1.
C13_PresentLeftAlone ==
    [][ /\ \A t \in egress_started_for :
              CallCount(calls', t) = CallCount(calls, t)
        /\ \A t \in egress_started_for :
              on_track_published(t) => UNCHANGED <<egress_started_for, calls>>
        /\ (Keys(pubs'[Local]) = {"L1"} /\ Keys(pubs'["human-user"]) = {})
              => Len(calls') <= 1
      ]_vars

\* L1 was published before the initial scan, the scan submitted it, and
\* on_track_published(L1) ran afterwards: still one call.
C13_Witness ==
    /\ ep_pc = "sleep"
    /\ scans = 0
    /\ Keys(pubs[Local]) = {"L1"}
    /\ Keys(pubs["human-user"]) = {}
    /\ events = 1
    /\ Len(calls) = 1
    /\ calls[1].sid = "L1" /\ calls[1].via = "scan" /\ calls[1].state = "ok"
    /\ egress_started_for = {"L1"}

\* C14: on_track_published neither sends the request nor waits for it. When
\* the handler has run for an audio sid that was absent, the sid is in
\* egress_started_for and one call of start_track_egress is scheduled with
\* no request sent; the handler's step touches no earlier call and does not
\* move the scanner; the request of a scheduled call is sent only in a later
\* step, which is not a run of the handler.
C14_HandlerOnlySchedules ==
    [][ /\ \A t \in Tracks :
              (on_track_published(t) /\ EventEligible(t, egress_started_for))
                => /\ t \in egress_started_for'
                   /\ Len(calls') = Len(calls) + 1
                   /\ calls'[Len(calls')].sid = t
        /\ \A i \in (Len(calls) + 1)..Len(calls') :
              calls'[i].via = "event"
                => calls'[i].state = "scheduled" /\ calls'[i].req = NoReq
        /\ events' # events
              => /\ UNCHANGED <<ep_pc, scan, scan_wait>>
                 /\ \A i \in 1..Len(calls) : calls'[i] = calls[i]
        /\ \A i \in 1..Len(calls) :
              (calls[i].state = "scheduled" /\ calls'[i] # calls[i])
                => /\ events' = events
                   /\ calls'[i].state = "inflight"
                   /\ calls'[i].req # NoReq
      ]_vars

\* The handler has returned for R1: R1 is in the set, its task is scheduled
\* and nothing has been sent.
C14_Witness ==
    /\ events = 1
    /\ Len(calls) = 1
    /\ calls[1].sid = "R1" /\ calls[1].via = "event"
    /\ calls[1].state = "scheduled" /\ calls[1].req = NoReq
    /\ egress_started_for = {"R1"}

\* C15: in every reachable state egress_started_for is exactly the set of
\* sids that have a call of start_track_egress, scheduled, in flight or
\* finished with either outcome: no call is for a sid outside the set and no
\* sid is in the set without a call.
C15_SetIsCalls ==
    /\ egress_started_for = {calls[i].sid : i \in 1..Len(calls)}
    /\ \A i \in 1..Len(calls) :
          calls[i].state \in {"scheduled", "inflight", "ok", "failed"}

\* Both audio tracks are in the set: one submission has failed and the other
\* is still only scheduled.
C15_Witness ==
    /\ egress_started_for = {"L1", "R1"}
    /\ Len(calls) = 2
    /\ \E i, j \in 1..2 :
          calls[i].state = "failed" /\ calls[j].state = "scheduled"

\* C16: every audio track whose event is delivered to on_track_published is
\* eventually submitted, whenever the event arrives: when the handler has run
\* for an audio track, its request has been sent already or a task for it is
\* scheduled, and a scheduled task leads to the request being sent unless
\* the process shuts down first (the loop runs scheduled tasks fairly).
C16_DeliveredEventSubmitted ==
    /\ [][ \A t \in AudioTracks :
              on_track_published(t)
                => \/ Sent(t)'
                   \/ \E i \in 1..Len(calls') :
                         calls'[i].sid = t /\ calls'[i].state = "scheduled"
          ]_vars
    /\ \A t \in AudioTracks :
          (\E i \in 1..Len(calls) :
              calls[i].sid = t /\ calls[i].state = "scheduled")
            ~> (Sent(t) \/ shutdown)

\* periodic_check has made all its scans and slept all its sleeps, and the
\* request of a track that on_track_published discovered has been sent.
C16_Witness ==
    /\ ep_pc = "done"
    /\ scans = NumScans
    /\ \E i \in 1..Len(calls) :
          /\ calls[i].via = "event"
          /\ calls[i].state = "inflight"
          /\ Sent(calls[i].sid)

\* C17 as stated: the listener is registered before the session starts, the
\* initial scan runs once between session.start and the creation of
\* periodic_check, and when the initial scan has ended with the publications
\* unchanged during it, every published audio track is in egress_started_for
\* and its submission has been attempted (its task is no longer merely
\* scheduled).
C17_Original ==
    [][ /\ EntrypointOrder
        /\ (ep_pc' = "periodic_created" /\ ~room_changed')
              => \A t \in PublishedAudio' :
                    /\ t \in egress_started_for'
                    /\ \E i \in 1..Len(calls') :
                          calls'[i].sid = t /\ calls'[i].state # "scheduled"
      ]_vars

\* C17: the listener is registered before the session starts, the initial
\* scan runs once between session.start and the creation of periodic_check,
\* and when the initial scan has ended with the publications unchanged
\* during it, every published audio track is in egress_started_for and has
\* exactly one call of start_track_egress; a call made by the scan has been
\* attempted, a call made by on_track_published may still be only scheduled.
C17_InitialScanCovers ==
    [][ /\ EntrypointOrder
        /\ (ep_pc' = "periodic_created" /\ ~room_changed')
              => \A t \in PublishedAudio' :
                    /\ t \in egress_started_for'
                    /\ CallCount(calls', t) = 1
                    /\ \A i \in 1..Len(calls') :
                          (calls'[i].sid = t /\ calls'[i].via = "scan")
                            => calls'[i].state \in {"ok", "failed"}
      ]_vars

\* The initial scan has ended with the publications unchanged during it: it
\* submitted L1 itself, and skipped R1, which on_track_published had added
\* before the scan and whose task has not started yet.
C17_Witness ==
    /\ ep_pc = "periodic_created"
    /\ ~room_changed
    /\ PublishedAudio = {"L1", "R1"}
    /\ Len(calls) = 2
    /\ calls[1].sid = "R1" /\ calls[1].via = "event"
    /\ calls[1].state = "scheduled"
    /\ calls[2].sid = "L1" /\ calls[2].via = "scan"
    /\ calls[2].state = "ok"

====
